---- MODULE Spec2Model ----
(***************************************************************************)
(* Model of the mind-map generation pipeline:                              *)
(*   src/mindmap-app/src/app/api/generate/route.ts     (Generate)          *)
(*   src/mindmap-app/src/app/api/autocorrect/route.ts  (Refine)            *)
(*   src/mindmap-app/src/components/MindMapApp.tsx     (the client)        *)
(*                                                                         *)
(* Strings that the code inspects character by character (the generative   *)
(* service's text, the extracted document text) are sequences of lexemes:  *)
(*   "{" "}"  braces            "k"  an object key with its colon          *)
(*   "1"      a scalar literal  "G"  the members sourceSummary/nodes/edges *)
(*   "x"      a prose character "\n" " "  white space                      *)
(* A JavaScript value that may be undefined or null is a record with a     *)
(* kind field: Undefined, Null or Val(x).                                  *)
(***************************************************************************)
EXTENDS Integers, Sequences, FiniteSets, TLC

VARIABLES
    pc,             \* position of the request handler
    op,             \* "none" | "generate" | "refine"
    apiKey,         \* process.env.OPENAI_API_KEY is set
    request,        \* the inbound request
    pdf,            \* the opened document (pdfjs proxy), Undefined outside extraction
    pageNumber,     \* loop variable of extractTextFromPdf
    text,           \* accumulator of extractTextFromPdf
    destroyed,      \* number of pdf.destroy() calls
    extractedText,  \* result of extractTextFromPdf
    response,       \* the generative service's response envelope
    outputText,     \* collectResponseText(response)
    parsed,         \* safeParseJson(outputText)
    mindMap,        \* result of buildMindMapFromText
    idx,            \* position of the for..of loop over mindMap.nodes
    citations,      \* verifyNode's result for the current node
    verifiedNodes,  \* nodes pushed so far
    calls,          \* external calls made by this operation, in order
    result,         \* the HTTP response; status 0 while the handler runs
    client          \* state of the MindMapApp component and its requests in flight

vars == <<pc, op, apiKey, request, pdf, pageNumber, text, destroyed,
          extractedText, response, outputText, parsed, mindMap, idx,
          citations, verifiedNodes, calls, result, client>>

Undefined == [kind |-> "undefined"]
Null == [kind |-> "null"]
Val(x) == [kind |-> "value", v |-> x]

\* o === undefined || o === null
IsNullish(o) == o.kind \in {"undefined", "null"}

\* o ?? d
Coalesce(o, d) == IF IsNullish(o) THEN d ELSE o.v

----------------------------------------------------------------------------
(* Bounds *)

MaxLen == 5        \* longest generated text checked by the parser
MaxNodes == 2      \* most nodes in one synthesized graph
MaxEdges == 2      \* most edges in one synthesized graph
MaxDocs == 4       \* most documents in one primary-source result
MaxItems == 2      \* most output items in one response envelope
MaxFrags == 1      \* most content fragments in one output item
MaxRequests == 1   \* most Refine requests the component sends
MaxPages == 2      \* most pages in one document
MaxUploads == 2    \* most uploads the component starts

----------------------------------------------------------------------------
(* Generic sequence helpers *)

Min(a, b) == IF a < b THEN a ELSE b
Max(a, b) == IF a > b THEN a ELSE b

SeqsUpTo(S, n) == UNION {[1..m -> S] : m \in 0..n}

\* Array.prototype.join(sep) on an array of strings
RECURSIVE Join(_, _)
Join(ss, sep) ==
    IF ss = <<>> THEN <<>>
    ELSE IF Len(ss) = 1 THEN ss[1]
    ELSE ss[1] \o sep \o Join(Tail(ss), sep)

\* String.prototype.slice(start, end) with 0-based, end-exclusive indices
Slice(s, start, end) == SubSeq(s, start + 1, end)

IsWs(c) == c \in {"\n", " "}

----------------------------------------------------------------------------
(* JSON.parse on lexeme strings *)

RECURSIVE SkipWs(_, _)
SkipWs(s, i) ==
    IF i <= Len(s) /\ IsWs(s[i]) THEN SkipWs(s, i + 1) ELSE i

\* Position after the JSON value that starts at or after i, 0 when there is none
RECURSIVE ParseValue(_, _)
ParseValue(s, i) ==
    LET a == SkipWs(s, i) IN
    IF a > Len(s) THEN 0
    ELSE IF s[a] = "1" THEN a + 1
    ELSE IF s[a] = "{" THEN
        LET b == SkipWs(s, a + 1) IN
        IF b > Len(s) THEN 0
        ELSE IF s[b] = "}" THEN b + 1
        ELSE IF s[b] = "G" THEN
            LET c == SkipWs(s, b + 1) IN
            IF c <= Len(s) /\ s[c] = "}" THEN c + 1 ELSE 0
        ELSE IF s[b] = "k" THEN
            LET e == ParseValue(s, b + 1) IN
            IF e = 0 THEN 0
            ELSE LET c == SkipWs(s, e) IN
                 IF c <= Len(s) /\ s[c] = "}" THEN c + 1 ELSE 0
        ELSE 0
    ELSE 0

\* JSON.parse: the value is the lexemes without white space; ok = FALSE is a SyntaxError
JSONparse(s) ==
    LET e == ParseValue(s, 1) IN
    IF e # 0 /\ SkipWs(s, e) = Len(s) + 1
    THEN [ok |-> TRUE, value |-> SelectSeq(s, LAMBDA c : ~IsWs(c))]
    ELSE [ok |-> FALSE, value |-> <<>>]

\* String.prototype.indexOf(c): 0-based, -1 when absent
RECURSIVE IndexFrom(_, _, _)
IndexFrom(s, c, i) ==
    IF i > Len(s) THEN -1
    ELSE IF s[i] = c THEN i - 1
    ELSE IndexFrom(s, c, i + 1)

indexOf(s, c) == IndexFrom(s, c, 1)

\* String.prototype.lastIndexOf(c): 0-based, -1 when absent
RECURSIVE LastIndexFrom(_, _, _)
LastIndexFrom(s, c, i) ==
    IF i < 1 THEN -1
    ELSE IF s[i] = c THEN i - 1
    ELSE LastIndexFrom(s, c, i - 1)

lastIndexOf(s, c) == LastIndexFrom(s, c, Len(s))

ParseErrorMessage == "Failed to parse JSON from AI response"

\* A mutant of safeParseJson that spans to the first closing brace
safeParseJsonFirstClose(input) ==
    LET whole == JSONparse(input) IN
    IF whole.ok THEN [ok |-> TRUE, value |-> whole.value, error |-> "none"]
    ELSE
        LET start == indexOf(input, "{")
            end == indexOf(input, "}")
        IN
        IF start # -1 /\ end # -1 /\ end > start THEN
            LET inner == JSONparse(Slice(input, start, end + 1)) IN
            IF inner.ok THEN [ok |-> TRUE, value |-> inner.value, error |-> "none"]
            ELSE [ok |-> FALSE, value |-> <<>>, error |-> "SyntaxError"]
        ELSE [ok |-> FALSE, value |-> <<>>, error |-> ParseErrorMessage]

safeParseJson(input) ==
    LET whole == JSONparse(input) IN
    IF whole.ok THEN [ok |-> TRUE, value |-> whole.value, error |-> "none"]
    ELSE
        LET start == indexOf(input, "{")
            end == lastIndexOf(input, "}")
        IN
        IF start # -1 /\ end # -1 /\ end > start THEN
            LET inner == JSONparse(Slice(input, start, end + 1)) IN
            IF inner.ok THEN [ok |-> TRUE, value |-> inner.value, error |-> "none"]
            ELSE [ok |-> FALSE, value |-> <<>>, error |-> "SyntaxError"]
        ELSE [ok |-> FALSE, value |-> <<>>, error |-> ParseErrorMessage]

----------------------------------------------------------------------------
(* collectResponseText *)

\* (item.content ?? []).map((content) => content?.text)
\*     .filter((segment) => typeof segment === 'string')
ItemSegments(item) ==
    LET content == Coalesce(item.content, <<>>)
        strings == SelectSeq(content, LAMBDA c : c.text.kind = "value")
    IN [i \in 1..Len(strings) |-> strings[i].text.v]

\* payload.output.flatMap(...)
RECURSIVE FlatMapSegments(_)
FlatMapSegments(output) ==
    IF output = <<>> THEN <<>>
    ELSE ItemSegments(Head(output)) \o FlatMapSegments(Tail(output))

\* if (payload.output_text): present, not null and not the empty string
Truthy(s) == s.kind = "value" /\ s.v # <<>>

\* payload.output && payload.output.length > 0, then segments.length > 0
HasSegments(payload) ==
    /\ payload.output.kind = "value"
    /\ Len(payload.output.v) > 0
    /\ Len(FlatMapSegments(payload.output.v)) > 0

\* A mutant of collectResponseText that prefers the fragments
collectResponseTextFragmentsFirst(payload) ==
    IF HasSegments(payload)
    THEN Join(FlatMapSegments(payload.output.v), <<"\n">>)
    ELSE IF Truthy(payload.output_text) THEN payload.output_text.v
    ELSE <<>>

collectResponseText(payload) ==
    IF Truthy(payload.output_text) THEN payload.output_text.v
    ELSE IF HasSegments(payload)
    THEN Join(FlatMapSegments(payload.output.v), <<"\n">>)
    ELSE <<>>

----------------------------------------------------------------------------
(* extractTextFromPdf: page text and trim *)

\* content.items.map(item => item.str ?? '').join(' ')
PageText(page) == Join(page.items, <<" ">>)

RECURSIVE TrimStart(_)
TrimStart(s) ==
    IF s # <<>> /\ IsWs(Head(s)) THEN TrimStart(Tail(s)) ELSE s

RECURSIVE TrimEnd(_)
TrimEnd(s) ==
    IF s # <<>> /\ IsWs(s[Len(s)]) THEN TrimEnd(SubSeq(s, 1, Len(s) - 1)) ELSE s

\* String.prototype.trim()
Trim(s) == TrimEnd(TrimStart(s))

----------------------------------------------------------------------------
(* buildMindMapFromText: normalization of the parsed graph *)

\* A mutant of ClampImportance without the upper limit
ClampImportanceNoUpper(importance) == Max(1, Coalesce(importance, 3))

\* Math.min(5, Math.max(1, node.importance ?? 3))
ClampImportance(importance) == Min(5, Max(1, Coalesce(importance, 3)))

\* A mutant of NormalizeNode that keeps the citations and the verified flag
\* of the generative output
NormalizeNodeTrusting(node) ==
    [id |-> node.id,
     title |-> node.title,
     summary |-> node.summary,
     parentIds |-> Coalesce(node.parentIds, <<>>),
     importance |-> ClampImportance(node.importance),
     tags |-> Coalesce(node.tags, <<>>),
     citations |-> Coalesce(node.citations, <<>>),
     verified |-> Coalesce(node.verified, FALSE)]

\* parsed.nodes.map((node) => ({ ... }))
NormalizeNode(node) ==
    [id |-> node.id,
     title |-> node.title,
     summary |-> node.summary,
     parentIds |-> Coalesce(node.parentIds, <<>>),
     importance |-> ClampImportance(node.importance),
     tags |-> Coalesce(node.tags, <<>>),
     citations |-> <<>>,
     verified |-> FALSE]

\* A mutant of EdgeId whose positional id ignores the position
EdgeIdNoIndex(edge, index) ==
    IF edge.label.kind = "value" /\ edge.label.v # <<>>
    THEN edge.source \o <<"-">> \o edge.target \o <<"-">> \o edge.label.v
    ELSE <<"edge", "-", "0">>

\* edge?.label ? `${source}-${target}-${label}` : `edge-${index}`, index 0-based
EdgeId(edge, index) ==
    IF edge.label.kind = "value" /\ edge.label.v # <<>>
    THEN edge.source \o <<"-">> \o edge.target \o <<"-">> \o edge.label.v
    ELSE <<"edge", "-", ToString(index)>>

NormalizeEdge(edge, index) ==
    [id |-> EdgeId(edge, index),
     source |-> edge.source,
     target |-> edge.target,
     label |-> edge.label]

\* The object returned by buildMindMapFromText for a parsed graph
Normalize(graph) ==
    [nodes |-> [i \in 1..Len(graph.nodes) |-> NormalizeNode(graph.nodes[i])],
     edges |-> [i \in 1..Len(graph.edges) |-> NormalizeEdge(graph.edges[i], i - 1)],
     sourceSummary |-> graph.sourceSummary]

----------------------------------------------------------------------------
(* ReferenceVerifier: fetchMedlineCitations, fetchWikipediaFallback *)

\* String.prototype.toLowerCase() on the atoms of a title
Lower(q) == [i \in 1..Len(q) |-> IF q[i] = "T" THEN "t" ELSE q[i]]

\* encodeURIComponent on the atoms of a title: a space is escaped
EncodeURIComponent(q) == [i \in 1..Len(q) |-> IF q[i] = " " THEN "%20" ELSE q[i]]

\* `https://medlineplus.gov/${encodeURIComponent(query.toLowerCase())}.html`
DefaultMedlineUrl(query) ==
    <<"https://medlineplus.gov/">> \o EncodeURIComponent(Lower(query)) \o <<".html">>

\* Array.isArray(contentRaw) ? contentRaw : contentRaw ? [contentRaw] : []
ContentArray(contentRaw) ==
    IF contentRaw.kind = "array" THEN contentRaw.v
    ELSE IF contentRaw.kind = "object" THEN <<contentRaw.v>>
    ELSE <<>>

\* contentArray.find((c) => c?.['@_name'] === name): Undefined when none
RECURSIVE FindContent(_, _)
FindContent(contentArray, name) ==
    IF contentArray = <<>> THEN Undefined
    ELSE IF Head(contentArray).name = name THEN Val(Head(contentArray))
    ELSE FindContent(Tail(contentArray), name)

\* linkRaw[0]?.['@_url'] ?? '' for an array, linkRaw?.['@_url'] ?? '' for an object, else ''
LinkUrl(urlEdge) ==
    IF urlEdge.kind # "value" THEN <<>>
    ELSE LET linkRaw == urlEdge.v.link IN
         IF linkRaw.kind = "array"
         THEN IF linkRaw.v = <<>> THEN <<>> ELSE Coalesce(linkRaw.v[1].url, <<>>)
         ELSE IF linkRaw.kind = "object" THEN Coalesce(linkRaw.v.url, <<>>)
         ELSE <<>>

\* snippetEdge?.['#text'] ?? undefined
SnippetText(snippetEdge) ==
    IF snippetEdge.kind # "value" THEN Undefined
    ELSE IF IsNullish(snippetEdge.v.text) THEN Undefined
    ELSE snippetEdge.v.text

\* The citation built for one primary-source document
MedlineCitation(doc, query) ==
    LET contentArray == ContentArray(doc.content)
        urlEdge == FindContent(contentArray, "FullSummary")
        snippetEdge == FindContent(contentArray, "Snippet")
        linkUrl == LinkUrl(urlEdge)
    IN [title |-> Coalesce(doc.name, query),
        url |-> IF linkUrl # <<>> THEN linkUrl ELSE DefaultMedlineUrl(query),
        snippet |-> SnippetText(snippetEdge),
        source |-> "MedlinePlus"]

\* Array.isArray(documents) ? documents : [documents]
DocsArray(documents) ==
    IF documents.kind = "array" THEN documents.v ELSE <<documents.v>>

\* A mutant of Take that keeps every element
TakeAll(a, n) == a

\* Array.prototype.slice(0, n)
Take(a, n) == SubSeq(a, 1, Min(n, Len(a)))

\* The value fetchMedlineCitations returns for a response that did not throw
fetchMedlineCitations(query, medline) ==
    IF medline.kind = "notOk" THEN <<>>
    ELSE IF medline.documents.kind = "undefined" THEN <<>>
    ELSE LET docs == Take(DocsArray(medline.documents), 3) IN
         [i \in 1..Len(docs) |-> MedlineCitation(docs[i], query)]

\* The value fetchWikipediaFallback returns for a response that did not throw
fetchWikipediaFallback(query, wiki) ==
    IF wiki.kind = "notOk" THEN <<>>
    ELSE IF wiki.data.kind # "value" THEN <<>>
    ELSE IF ~(wiki.data.v.page.kind = "value" /\ wiki.data.v.page.v # <<>>) THEN <<>>
    ELSE << [title |-> Coalesce(wiki.data.v.title, query),
             url |-> wiki.data.v.page.v,
             snippet |-> IF IsNullish(wiki.data.v.extract) THEN Undefined
                         ELSE wiki.data.v.extract,
             source |-> "Wikipedia"] >>

\* A fetch that rejects, or a body that cannot be read or decoded
Throws(r) == r.kind \in {"throw", "badBody"}

----------------------------------------------------------------------------
(* POST (generate): deduplication of one node's citations *)

\* arr.findIndex((c) => c.url === url), 0-based, -1 when none
RECURSIVE FindIndexFrom(_, _, _)
FindIndexFrom(arr, url, i) ==
    IF i > Len(arr) THEN -1
    ELSE IF arr[i].url = url THEN i - 1
    ELSE FindIndexFrom(arr, url, i + 1)

findIndex(arr, url) == FindIndexFrom(arr, url, 1)

\* A mutant of uniqueCitations that keeps the last entry of each url
RECURSIVE KeepLastFrom(_, _)
KeepLastFrom(cs, i) ==
    IF i > Len(cs) THEN <<>>
    ELSE (IF \A j \in (i + 1)..Len(cs) : cs[j].url # cs[i].url THEN <<cs[i]>> ELSE <<>>)
         \o KeepLastFrom(cs, i + 1)

uniqueCitationsKeepLast(cs) == KeepLastFrom(cs, 1)

\* The filter callback applied from position i on: the entry at the 0-based
\* index i - 1 is kept when findIndex of its url is that index
RECURSIVE FilterFirstFrom(_, _)
FilterFirstFrom(arr, i) ==
    IF i > Len(arr) THEN <<>>
    ELSE (IF findIndex(arr, arr[i].url) = i - 1 THEN <<arr[i]>> ELSE <<>>)
         \o FilterFirstFrom(arr, i + 1)

\* citations.filter((citation, index, arr) =>
\*     arr.findIndex((c) => c.url === citation.url) === index)
uniqueCitations(cs) == FilterFirstFrom(cs, 1)

----------------------------------------------------------------------------
(* Inputs of the pipeline *)

NoCitations == <<>>

\* Synthesized nodes as the generative service may write them
RawNodeA ==
    [id |-> <<"a">>, title |-> <<"T">>, summary |-> <<"S">>,
     parentIds |-> Undefined, importance |-> Undefined, tags |-> Undefined,
     citations |-> Undefined, verified |-> Undefined]

RawNodeB ==
    [id |-> <<"b">>, title |-> <<"T", " ", "t">>, summary |-> <<"S">>,
     parentIds |-> Val(<< <<"a">> >>), importance |-> Val(9),
     tags |-> Val(<< <<"symptom">> >>),
     citations |-> Val(<< [title |-> <<"made up">>, url |-> <<"u9">>,
                           snippet |-> Undefined, source |-> "model"] >>),
     verified |-> Val(TRUE)]

\* A second node with the id of RawNodeA
RawNodeA2 ==
    [id |-> <<"a">>, title |-> <<"t">>, summary |-> <<"S2">>,
     parentIds |-> Val(<<>>), importance |-> Val(0), tags |-> Val(<<>>),
     citations |-> Undefined, verified |-> Val(FALSE)]

PipeRawNodes == {RawNodeA, RawNodeB, RawNodeA2}

\* An edge without a label, and a labelled edge whose target is no node
RawEdgePlain == [source |-> <<"a">>, target |-> <<"b">>, label |-> Undefined]
RawEdgeDangling == [source |-> <<"a">>, target |-> <<"z">>, label |-> Val(<<"l">>)]

\* Edge lists of every length, a well-formed edge alternating with one whose
\* target names no node
PipeRawEdgeLists ==
    {[i \in 1..n |-> IF i % 2 = 1 THEN RawEdgePlain ELSE RawEdgeDangling] :
        n \in 0..MaxEdges}

PipeGraphs ==
    [nodes : SeqsUpTo(PipeRawNodes, MaxNodes),
     edges : PipeRawEdgeLists,
     sourceSummary : {<<"s">>}]

\* Response envelopes of the generative service
EnvelopeTexts == {<<>>, <<"{", "G", "}">>, <<"x">>}

FragmentTexts == {Undefined, Val(<<>>), Val(<<"{", "G", "}">>)}

Fragments == [text : FragmentTexts]

Items == [content : {Undefined} \cup {Val(c) : c \in SeqsUpTo(Fragments, MaxFrags)}]

Envelopes ==
    [output_text : {Undefined, Null} \cup {Val(t) : t \in EnvelopeTexts},
     output : {Undefined} \cup {Val(o) : o \in SeqsUpTo(Items, MaxItems)}]

\* The envelopes met by the whole pipeline: the graph as flattened text,
\* wrapped in prose, and as a fragment; two empty responses; prose without
\* braces; braces around prose; an object without members
Envelope(output_text, output) == [output_text |-> output_text, output |-> output]

PipeEnvelopes ==
    {Envelope(Val(<<"{", "G", "}">>), Undefined),
     Envelope(Val(<<"x", "{", "G", "}", "x">>), Val(<<>>)),
     Envelope(Null, Val(<< [content |-> Val(<< [text |-> Val(<<"{", "G", "}">>)] >>)] >>)),
     Envelope(Undefined, Undefined),
     Envelope(Val(<<>>), Val(<< [content |-> Undefined] >>)),
     Envelope(Val(<<"x">>), Undefined),
     Envelope(Val(<<"{", "x", "}">>), Undefined),
     Envelope(Val(<<"{", "}">>), Undefined)}

\* Paginated documents: a page either fails to load or carries text items
PageKinds ==
    {[fails |-> TRUE, items |-> <<>>],
     [fails |-> FALSE, items |-> <<>>],
     [fails |-> FALSE, items |-> << <<"w">> >>]}

Documents == [opens : BOOLEAN, pages : SeqsUpTo(PageKinds, MaxPages)]

\* Content entries and documents of the primary source
FullSummary(link) == [name |-> "FullSummary", text |-> Undefined, link |-> link]
Snippet(t) == [name |-> "Snippet", text |-> t, link |-> Undefined]
LinkObject(u) == [kind |-> "object", v |-> [url |-> u]]
LinkArray(us) == [kind |-> "array", v |-> [i \in 1..Len(us) |-> [url |-> Val(us[i])]]]

DocX ==
    [name |-> Val(<<"X">>),
     content |-> [kind |-> "array",
                  v |-> <<FullSummary(LinkObject(Val(<<"ux">>))), Snippet(Val(<<"sn">>))>>]]

DocY ==
    [name |-> Val(<<"Y">>),
     content |-> [kind |-> "object",
                  v |-> FullSummary(LinkArray(<< <<"uy">>, <<"ux">> >>))]]

\* The link of DocX under another name and snippet
DocX2 ==
    [name |-> Val(<<"X2">>),
     content |-> [kind |-> "array",
                  v |-> <<Snippet(Val(<<"s2">>)), FullSummary(LinkObject(Val(<<"ux">>)))>>]]

\* No name and no content: the title and the link come from the query
DocBare == [name |-> Undefined, content |-> Undefined]

\* A full summary without a link and a snippet without text
DocNoLink ==
    [name |-> Val(<<"N">>),
     content |-> [kind |-> "array",
                  v |-> <<FullSummary(Undefined), Snippet(Undefined)>>]]

MedlineDocs == {DocX, DocY, DocX2, DocBare, DocNoLink}

MedlineOk(documents) == [kind |-> "ok", documents |-> documents]
MedlineFailure(kind) == [kind |-> kind, documents |-> Undefined]

\* Every response of the primary source: a rejected fetch, an unreadable
\* body, a non-OK status, or a parsed body with no, one or several documents
MedlineResponses ==
    {MedlineFailure(k) : k \in {"throw", "badBody", "notOk"}}
    \cup {MedlineOk(Undefined)}
    \cup {MedlineOk([kind |-> "object", v |-> d]) : d \in MedlineDocs}
    \cup {MedlineOk([kind |-> "array", v |-> ds]) :
            ds \in {x \in SeqsUpTo(MedlineDocs, MaxDocs) : Len(x) >= 2}}

PipeMedlineResponses ==
    {MedlineFailure("throw"), MedlineFailure("notOk"), MedlineOk(Undefined),
     MedlineOk([kind |-> "array", v |-> <<DocX, DocX2>>])}

WikiOk(data) == [kind |-> "ok", data |-> data]
WikiFailure(kind) == [kind |-> kind, data |-> Undefined]

WikiPages ==
    [title : {Undefined, Val(<<"W">>)},
     page : {Undefined, Val(<<>>), Val(<<"uw">>)},
     extract : {Undefined, Val(<<"ex">>)}]

WikiResponses ==
    {WikiFailure(k) : k \in {"throw", "badBody", "notOk"}}
    \cup {WikiOk(Null)}
    \cup {WikiOk(Val(d)) : d \in WikiPages}

PipeWikiResponses ==
    {WikiFailure("throw"), WikiFailure("notOk"),
     WikiOk(Val([title |-> Val(<<"W">>), page |-> Val(<<"uw">>), extract |-> Undefined]))}

\* Requests to the two routes
GenerateRequests == {[body |-> "badForm"], [body |-> "noFile"], [body |-> "file"]}

\* The node of a Refine request is the JSON the caller sent: the route reads
\* its title, summary, tags and citations without validating any of them
CitationX ==
    [title |-> <<"X">>, url |-> <<"ux">>, snippet |-> Undefined,
     source |-> "MedlinePlus"]
CitationW ==
    [title |-> <<"W">>, url |-> <<"uw">>, snippet |-> Val(<<"n">>),
     source |-> "Wikipedia"]

RefineNodes ==
    [title : {<<"T">>},
     summary : {Undefined, Val(<<"S">>)},
     tags : {Undefined, Val(<< <<"symptom">> >>)},
     citations : {Undefined, Val(<<>>), Val(<<CitationX>>),
                  Val(<<CitationX, CitationW>>), Val(<<CitationW, CitationX>>)}]

RefineRequests ==
    {[body |-> "badJson", payload |-> Undefined],
     [body |-> "json", payload |-> Null],
     [body |-> "json", payload |-> Val([node |-> Undefined])]}
    \cup {[body |-> "json", payload |-> Val([node |-> Val(n)])] : n \in RefineNodes}

\* The objects a revision text can denote
RefineObjects ==
    [summary : {Undefined, Null, Val(<<"S*">>)},
     tags : {Undefined, Val(<< <<"treatment">> >>)}]

----------------------------------------------------------------------------
(* HTTP responses and the external-call log *)

Running == [status |-> 0, error |-> "none", payload |-> Undefined]

\* NextResponse.json({ error }, { status })
ErrorResponse(status, message) ==
    [status |-> status, error |-> message, payload |-> Undefined]

\* NextResponse.json(body)
OkResponse(body) == [status |-> 200, error |-> "none", payload |-> Val(body)]

\* The local `parsed`: the outcome of safeParseJson and the object it returned
Parsed(p, object) ==
    [ok |-> p.ok, value |-> p.value, error |-> p.error, object |-> object]

NotParsed ==
    [ok |-> FALSE, value |-> <<>>, error |-> "not attempted", object |-> Undefined]

Call(kind, node, outcome, count) ==
    [kind |-> kind, node |-> node, outcome |-> outcome, count |-> count]

\* A query to a reference source for the node at position node, the response
\* that answered it, and the number of citations built from it
ReferenceCall(kind, node, answer, count) ==
    [kind |-> kind, node |-> node, outcome |-> answer.kind, count |-> count,
     answer |-> answer]

\* The members object that the lexeme G stands for
GraphText == <<"{", "G", "}">>

\* The component as mounted: the useState initial values, and no request
\* in flight
ClientIdle ==
    [uploadState |-> "idle", error |-> Null, mindMap |-> Null,
     selectedNodeId |-> Null, nodes |-> <<>>, edges |-> <<>>,
     inflight |-> <<>>, sent |-> 0, uploads |-> <<>>]

----------------------------------------------------------------------------
(* Init *)

\* The routes before a request
ServerIdle ==
    /\ pc = "idle"
    /\ op = "none"
    /\ apiKey \in BOOLEAN
    /\ request = Undefined
    /\ pdf = Undefined
    /\ pageNumber = 0
    /\ text = <<>>
    /\ destroyed = 0
    /\ extractedText = <<>>
    /\ response = Undefined
    /\ outputText = <<>>
    /\ parsed = NotParsed
    /\ mindMap = Undefined
    /\ idx = 0
    /\ citations = NoCitations
    /\ verifiedNodes = <<>>
    /\ calls = <<>>
    /\ result = Running

Init == ServerIdle /\ client = ClientIdle

\* A mutant of Respond that calls the generative service again after an
\* empty response
RespondRetrying(r) ==
    /\ result' = r
    /\ pc' = IF r.error # "Empty AI response" THEN "done"
             ELSE IF op = "generate" THEN "g_create" ELSE "r_create"

\* The handler returns the response r
Respond(r) == result' = r /\ pc' = "done"

----------------------------------------------------------------------------
(* POST /api/generate *)

\* request.formData(), formData.get('file') and the file check
GeneratePOST ==
    /\ pc = "idle"
    /\ \E req \in GenerateRequests :
        /\ request' = req
        /\ op' = "generate"
        /\ IF req.body = "badForm"
           THEN Respond(ErrorResponse(500, "Failed to parse body as FormData."))
           ELSE IF req.body = "noFile"
           THEN Respond(ErrorResponse(400, "A PDF file is required."))
           ELSE pc' = "g_open" /\ result' = result
    /\ UNCHANGED <<client, apiKey, pdf, pageNumber, text, destroyed, extractedText,
                   response, outputText, parsed, mindMap, idx, citations,
                   verifiedNodes, calls>>

\* Where the page loop of extractTextFromPdf goes with loop variable n
PageLoopPc(n, numPages) == IF n <= numPages THEN "g_page" ELSE "g_destroy"

\* pdfjsLib.getDocument({ data }).promise
GetDocument ==
    /\ pc = "g_open"
    /\ \E d \in Documents :
        /\ calls' = Append(calls, Call("pdf", 0, IF d.opens THEN "ok" ELSE "throw", 0))
        /\ IF ~d.opens
           THEN /\ Respond(ErrorResponse(500, "Invalid PDF structure."))
                /\ UNCHANGED <<pdf, pageNumber, text>>
           ELSE /\ pdf' = Val(d)
                /\ pageNumber' = 1
                /\ text' = <<>>
                /\ pc' = PageLoopPc(1, Len(d.pages))
                /\ result' = result
    /\ UNCHANGED <<client, op, apiKey, request, destroyed, extractedText, response,
                   outputText, parsed, mindMap, idx, citations, verifiedNodes>>

\* pdf.getPage(pageNumber), page.getTextContent() and text += `${pageText}\n`
GetPage ==
    /\ pc = "g_page"
    /\ LET page == pdf.v.pages[pageNumber] IN
       IF page.fails
       THEN /\ pc' = "g_destroy_throw"
            /\ UNCHANGED <<pageNumber, text>>
       ELSE /\ text' = text \o PageText(page) \o <<"\n">>
            /\ pageNumber' = pageNumber + 1
            /\ pc' = PageLoopPc(pageNumber + 1, Len(pdf.v.pages))
    /\ UNCHANGED <<client, op, apiKey, request, pdf, destroyed, extractedText, response,
                   outputText, parsed, mindMap, idx, citations, verifiedNodes,
                   calls, result>>

\* A mutant of IsEmptyText that lets every text through
IsEmptyTextNever(extracted) == FALSE

\* if (!extractedText)
IsEmptyText(extracted) == extracted = <<>>

\* A mutant of destroy that releases nothing
destroyNothing(released) == released

\* pdf.destroy(): one more release of the decoder of the document
destroy(released) == released + 1

\* finally { await pdf.destroy() }, return text.trim(), then the checks of
\* POST and buildMindMapFromText that precede the generative call
DestroyDocument ==
    /\ pc \in {"g_destroy", "g_destroy_throw"}
    /\ destroyed' = destroy(destroyed)
    /\ IF pc = "g_destroy_throw"
       THEN /\ Respond(ErrorResponse(500, "Failed to load page."))
            /\ UNCHANGED <<pdf, pageNumber, text, extractedText>>
       ELSE /\ extractedText' = Trim(text)
            /\ pdf' = Undefined
            /\ pageNumber' = 0
            /\ text' = <<>>
            /\ IF IsEmptyText(Trim(text))
               THEN Respond(ErrorResponse(422, "Unable to extract text from PDF."))
               ELSE IF ~apiKey
               THEN Respond(ErrorResponse(500, "Missing OPENAI_API_KEY"))
               ELSE pc' = "g_create" /\ result' = result
    /\ UNCHANGED <<client, op, apiKey, request, response, outputText, parsed, mindMap,
                   idx, citations, verifiedNodes, calls>>

\* await openai.responses.create(...) in buildMindMapFromText, answered by
\* an error or by one of the envelopes
CreateResponseStep(envelopes) ==
    /\ pc = "g_create"
    /\ \/ /\ calls' = Append(calls, Call("openai", 0, "throw", 0))
          /\ Respond(ErrorResponse(500, "Connection error."))
          /\ UNCHANGED response
       \/ \E env \in envelopes :
          /\ calls' = Append(calls, Call("openai", 0, "ok", 0))
          /\ response' = Val(env)
          /\ pc' = "g_collect"
          /\ result' = result
    /\ UNCHANGED <<client, op, apiKey, request, pdf, pageNumber, text, destroyed,
                   extractedText, outputText, parsed, mindMap, idx, citations,
                   verifiedNodes>>

CreateResponse == CreateResponseStep(PipeEnvelopes)

\* const outputText = collectResponseText(response); if (!outputText) throw
CollectText ==
    /\ pc = "g_collect"
    /\ outputText' = collectResponseText(response.v)
    /\ IF collectResponseText(response.v) = <<>>
       THEN Respond(ErrorResponse(500, "Empty AI response"))
       ELSE pc' = "g_parse" /\ result' = result
    /\ UNCHANGED <<client, op, apiKey, request, pdf, pageNumber, text, destroyed,
                   extractedText, response, parsed, mindMap, idx, citations,
                   verifiedNodes, calls>>

\* A mutant of LoopDone that leaves the loop one node early
LoopDoneEarly(i, n) == i >= n

\* The for..of loop over mindMap.nodes has no node at position i of n
LoopDone(i, n) == i > n

\* A mutant of Payload that drops the edges whose ends are not node ids
PayloadValidEdges(nodes, map) ==
    [nodes |-> nodes,
     edges |-> SelectSeq(map.edges,
                         LAMBDA e : \A end \in {e.source, e.target} :
                                       \E k \in DOMAIN nodes : nodes[k].id = end),
     generatedAt |-> "now",
     sourceSummary |-> map.sourceSummary]

\* The MindMapPayload assembled after the loop
Payload(nodes, map) ==
    [nodes |-> nodes,
     edges |-> map.edges,
     generatedAt |-> "now",
     sourceSummary |-> map.sourceSummary]

\* The loop continues with node i, or the payload is returned
ContinueLoop(i, nodes, map) ==
    IF LoopDone(i, Len(map.nodes))
    THEN Respond(OkResponse(Payload(nodes, map)))
    ELSE pc' = "g_verify" /\ result' = result

\* A parsed value other than the members object has none of its fields
NoFields == [summary |-> Undefined, tags |-> Undefined]

\* safeParseJson(outputText), the two map calls, and the start of the loop;
\* graphs are the objects the text may denote. The locals response and
\* outputText end when buildMindMapFromText returns.
ParseGraphStep(graphs) ==
    /\ pc = "g_parse"
    /\ LET p == safeParseJson(outputText) IN
       IF ~p.ok
       THEN /\ parsed' = Parsed(p, Undefined)
            /\ Respond(ErrorResponse(500, p.error))
            /\ UNCHANGED <<response, outputText, mindMap, idx, verifiedNodes>>
       ELSE IF p.value # GraphText
       THEN /\ parsed' = Parsed(p, Val(NoFields))
            /\ Respond(ErrorResponse(500, "Cannot read properties of undefined"))
            /\ UNCHANGED <<response, outputText, mindMap, idx, verifiedNodes>>
       ELSE \E g \in graphs :
            /\ mindMap' = Val(Normalize(g))
            /\ parsed' = Parsed(p, Val(g))
            /\ response' = Undefined
            /\ outputText' = <<>>
            /\ idx' = 1
            /\ verifiedNodes' = <<>>
            /\ ContinueLoop(1, <<>>, Normalize(g))
    /\ UNCHANGED <<client, op, apiKey, request, pdf, pageNumber, text, destroyed,
                   extractedText, citations, calls>>

ParseGraph == ParseGraphStep(PipeGraphs)

\* A mutant of NeedsFallback that falls back only after an OK response
NeedsFallbackOnlyWhenOk(medline, response_) == Len(medline) = 0 /\ response_.kind = "ok"

\* verifyNode: if (medline.length > 0) return medline; else the fallback runs
NeedsFallback(medline, response_) == Len(medline) = 0

\* A mutant of IsVerified that wants two citations
IsVerifiedTwo(unique) == Len(unique) > 1

\* verified: uniqueCitations.length > 0
IsVerified(unique) == Len(unique) > 0

\* A mutant of Push that puts the item in front
PushFront(arr, item) == <<item>> \o arr

\* arr.push(item)
Push(arr, item) == Append(arr, item)

\* const uniqueCitations = ...; verifiedNodes.push({...node, citations, verified})
PushNode(cites) ==
    LET unique == uniqueCitations(cites)
        node == mindMap.v.nodes[idx]
        pushed == Push(verifiedNodes,
                       [node EXCEPT !.citations = unique,
                                    !.verified = IsVerified(unique)])
    IN /\ citations' = cites
       /\ verifiedNodes' = pushed
       /\ idx' = idx + 1
       /\ ContinueLoop(idx + 1, pushed, mindMap.v)

\* verifyNode(node.title): await fetchMedlineCitations(query) answered by m
MedlineStep(m) ==
    /\ pc = "g_verify"
    /\ LET query == mindMap.v.nodes[idx].title IN
       IF Throws(m)
       THEN /\ calls' = Append(calls, ReferenceCall("medline", idx, m, 0))
            /\ Respond(ErrorResponse(500, "fetch failed"))
            /\ UNCHANGED <<idx, citations, verifiedNodes>>
       ELSE LET medline == fetchMedlineCitations(query, m) IN
            /\ calls' = Append(calls, ReferenceCall("medline", idx, m, Len(medline)))
            /\ IF NeedsFallback(medline, m)
               THEN /\ pc' = "g_wiki"
                    /\ UNCHANGED <<idx, citations, verifiedNodes, result>>
               ELSE PushNode(medline)
    /\ UNCHANGED <<client, op, apiKey, request, pdf, pageNumber, text, destroyed,
                   extractedText, response, outputText, parsed, mindMap>>

MedlineFetch == \E m \in PipeMedlineResponses : MedlineStep(m)

\* verifyNode(node.title): return fetchWikipediaFallback(query) answered by w
WikiStep(w) ==
    /\ pc = "g_wiki"
    /\ LET query == mindMap.v.nodes[idx].title IN
       IF Throws(w)
       THEN /\ calls' = Append(calls, ReferenceCall("wikipedia", idx, w, 0))
            /\ Respond(ErrorResponse(500, "fetch failed"))
            /\ UNCHANGED <<idx, citations, verifiedNodes>>
       ELSE LET wikipedia == fetchWikipediaFallback(query, w) IN
            /\ calls' = Append(calls, ReferenceCall("wikipedia", idx, w, Len(wikipedia)))
            /\ PushNode(wikipedia)
    /\ UNCHANGED <<client, op, apiKey, request, pdf, pageNumber, text, destroyed,
                   extractedText, response, outputText, parsed, mindMap>>

WikiFetch == \E w \in PipeWikiResponses : WikiStep(w)

----------------------------------------------------------------------------
(* POST /api/autocorrect *)

\* The key check, request.json(), the node check and the citations text,
\* for one of the requests
RefinePOSTStep(requests) ==
    /\ pc = "idle"
    /\ \E req \in requests :
        /\ request' = req
        /\ op' = "refine"
        /\ IF ~apiKey
           THEN Respond(ErrorResponse(500, "Missing OPENAI_API_KEY"))
           ELSE IF req.body = "badJson"
           THEN Respond(ErrorResponse(500, "Unexpected token in JSON"))
           ELSE IF IsNullish(req.payload) \/ IsNullish(req.payload.v.node)
           THEN Respond(ErrorResponse(400, "Node payload missing."))
           ELSE IF IsNullish(req.payload.v.node.v.citations)
           THEN Respond(ErrorResponse(500, "Cannot read properties of undefined"))
           ELSE pc' = "r_create" /\ result' = result
    /\ UNCHANGED <<client, apiKey, pdf, pageNumber, text, destroyed, extractedText,
                   response, outputText, parsed, mindMap, idx, citations,
                   verifiedNodes, calls>>

RefinePOST == RefinePOSTStep(RefineRequests)

\* `${value}` in a template literal
Interpolate(value) == IF value = Undefined THEN <<"undefined">> ELSE value.v

\* `${index + 1}. ${citation.title}\nSource: ...\nSnippet: ${snippet ?? 'N/A'}`
\* for the citation at position number (index + 1)
CitationText(citation, number) ==
    <<ToString(number), ". ">> \o citation.title
        \o <<"\nSource: ", citation.source, "\nURL: ">> \o citation.url
        \o <<"\nSnippet: ">> \o Coalesce(citation.snippet, <<"N/A">>)

NoCitationsMarker == "No citations available."

\* A mutant of citationsText that lists the citations last to first
citationsTextReversed(nodeCitations) ==
    IF Len(nodeCitations) > 0
    THEN Join([i \in 1..Len(nodeCitations) |->
                 CitationText(nodeCitations[Len(nodeCitations) + 1 - i], i)],
              <<"\n\n">>)
    ELSE <<NoCitationsMarker>>

\* const citationsText = payload.node.citations.length > 0 ? ... : '...'
citationsText(nodeCitations) ==
    IF Len(nodeCitations) > 0
    THEN Join([i \in 1..Len(nodeCitations) |-> CitationText(nodeCitations[i], i)],
              <<"\n\n">>)
    ELSE <<NoCitationsMarker>>

\* const prompt = `You are an expert medical editor. ... Respond with JSON: ...`
Prompt(node) ==
    <<"You are an expert medical editor. ", "\n\nCurrent Node:\nTitle: ">>
        \o node.title \o <<"\nSummary: ">> \o Interpolate(node.summary)
        \o <<"\n\nCitations:\n">> \o citationsText(node.citations.v)
        \o <<"\n\nRespond with JSON:\n">>

\* The request to the generative service with its input
RequestCall(outcome, input) ==
    [kind |-> "openai", node |-> 0, outcome |-> outcome, count |-> 0,
     input |-> input]

\* await openai.responses.create(...) in the autocorrect route, answered by
\* an error or by one of the envelopes
RefineCreateResponseStep(envelopes) ==
    /\ pc = "r_create"
    /\ \/ /\ calls' = Append(calls, RequestCall("throw", Prompt(request.payload.v.node.v)))
          /\ Respond(ErrorResponse(500, "Connection error."))
          /\ UNCHANGED response
       \/ \E env \in envelopes :
          /\ calls' = Append(calls, RequestCall("ok", Prompt(request.payload.v.node.v)))
          /\ response' = Val(env)
          /\ pc' = "r_collect"
          /\ result' = result
    /\ UNCHANGED <<client, op, apiKey, request, pdf, pageNumber, text, destroyed,
                   extractedText, outputText, parsed, mindMap, idx, citations,
                   verifiedNodes>>

RefineCreateResponse == RefineCreateResponseStep(PipeEnvelopes)

\* const outputText = collectResponseText(response); if (!outputText) throw
RefineCollectText ==
    /\ pc = "r_collect"
    /\ outputText' = collectResponseText(response.v)
    /\ IF collectResponseText(response.v) = <<>>
       THEN Respond(ErrorResponse(500, "Empty AI response"))
       ELSE pc' = "r_parse" /\ result' = result
    /\ UNCHANGED <<client, op, apiKey, request, pdf, pageNumber, text, destroyed,
                   extractedText, response, parsed, mindMap, idx, citations,
                   verifiedNodes, calls>>

\* safeParseJson(outputText) and the response with the ?? fallbacks
RefineParse ==
    /\ pc = "r_parse"
    /\ LET p == safeParseJson(outputText)
           node == request.payload.v.node.v
       IN IF ~p.ok
          THEN /\ parsed' = Parsed(p, Undefined)
               /\ Respond(ErrorResponse(500, p.error))
          ELSE \E o \in (IF p.value = GraphText THEN RefineObjects ELSE {NoFields}) :
               /\ parsed' = Parsed(p, Val(o))
               /\ Respond(OkResponse(
                      [summary |-> IF IsNullish(o.summary) THEN node.summary
                                   ELSE o.summary,
                       tags |-> IF IsNullish(o.tags) THEN node.tags ELSE o.tags]))
    /\ UNCHANGED <<client, op, apiKey, request, pdf, pageNumber, text, destroyed,
                   extractedText, response, outputText, mindMap, idx, citations,
                   verifiedNodes, calls>>

----------------------------------------------------------------------------
(* The two routes serving one request *)

Next ==
    \/ GeneratePOST
    \/ GetDocument
    \/ GetPage
    \/ DestroyDocument
    \/ CreateResponse
    \/ CollectText
    \/ ParseGraph
    \/ MedlineFetch
    \/ WikiFetch
    \/ RefinePOST
    \/ RefineCreateResponse
    \/ RefineCollectText
    \/ RefineParse

Spec == Init /\ [][Next]_vars

----------------------------------------------------------------------------
(* MindMapApp: the component, its handlers and its Refine requests *)

serverVars ==
    <<pc, op, apiKey, request, pdf, pageNumber, text, destroyed, extractedText,
      response, outputText, parsed, mindMap, idx, citations, verifiedNodes,
      calls, result>>

\* A node of the payload as the component holds it; summary and tags are
\* kept as the values the routes sent, which may be undefined
ClientNode(node) ==
    [id |-> node.id, title |-> node.title, summary |-> Val(node.summary),
     parentIds |-> node.parentIds, importance |-> node.importance,
     tags |-> Val(node.tags), citations |-> node.citations,
     verified |-> node.verified, autoCorrected |-> Undefined]

\* convertNodes(mindMap.nodes); getLayoutedElements only sets positions,
\* which are left out
convertNodes(nodes) ==
    [k \in DOMAIN nodes |->
        [id |-> nodes[k].id,
         type |-> "custom",
         data |-> [title |-> nodes[k].title, summary |-> nodes[k].summary,
                   importance |-> nodes[k].importance, tags |-> nodes[k].tags,
                   citations |-> nodes[k].citations, verified |-> nodes[k].verified,
                   autoCorrected |-> nodes[k].autoCorrected]]]

\* convertEdges(mindMap.edges)
convertEdges(edges) ==
    [k \in DOMAIN edges |->
        [id |-> edges[k].id, source |-> edges[k].source, target |-> edges[k].target,
         label |-> edges[k].label, type |-> "smoothstep", animated |-> FALSE]]

\* useEffect(() => { if (mindMap) { setNodes(...); setEdges(...) } }, [mindMap])
\* for the component state c in which setMindMap has stored a new value
MindMapEffect(c) ==
    IF c.mindMap = Null THEN c
    ELSE [c EXCEPT !.nodes = convertNodes(c.mindMap.v.nodes),
                   !.edges = convertEdges(c.mindMap.v.edges)]

\* setMindMap(payload); setSelectedNodeId(payload.nodes[0]?.id ?? null) in
\* the component state c
Load(c, payload) ==
    MindMapEffect(
        [c EXCEPT
            !.mindMap = Val([payload EXCEPT
                                !.nodes = [k \in DOMAIN payload.nodes |->
                                              ClientNode(payload.nodes[k])]]),
            !.selectedNodeId = IF payload.nodes = <<>> THEN Null
                               ELSE Val(payload.nodes[1].id)])

\* The component after its first upload returned payload
Loaded(payload) == Load(ClientIdle, payload)

\* The node as the loop of Generate pushes it for these citations
VerifiedAs(raw, cites) ==
    [NormalizeNode(raw) EXCEPT !.citations = uniqueCitations(cites),
                               !.verified = IsVerified(uniqueCitations(cites))]

\* Payloads of Generate for two graphs of two nodes, the second with one id
\* twice; the first node has a citation of the primary source
ClientPayloads ==
    {Payload(<<VerifiedAs(g.nodes[1],
                          fetchMedlineCitations(g.nodes[1].title,
                              MedlineOk([kind |-> "object", v |-> DocX]))),
               VerifiedAs(g.nodes[2], <<>>)>>,
             Normalize(g)) :
        g \in {[nodes |-> ns, edges |-> <<RawEdgePlain>>, sourceSummary |-> <<"s">>] :
                  ns \in {<<RawNodeA, RawNodeB>>, <<RawNodeA, RawNodeA2>>}}}

\* mindMap.nodes.find((node) => node.id === selectedNodeId) ?? null
RECURSIVE Find(_, _)
Find(nodes, id) ==
    IF nodes = <<>> THEN Null
    ELSE IF Head(nodes).id = id THEN Val(Head(nodes))
    ELSE Find(Tail(nodes), id)

\* The useMemo selectedNode
selectedNode ==
    IF client.mindMap = Null \/ client.selectedNodeId = Null THEN Null
    ELSE Find(client.mindMap.v.nodes, client.selectedNodeId.v)

\* setMindMap((prev) => prev ? {...prev, nodes: prev.nodes.map(...)} : prev)
updateNode(prev, updated) ==
    IF prev = Null THEN prev
    ELSE Val([prev.v EXCEPT
                !.nodes = [k \in DOMAIN prev.v.nodes |->
                              IF prev.v.nodes[k].id = updated.id THEN updated
                              ELSE prev.v.nodes[k]]])

\* onNodeClick on one of the rendered nodes
onNodeClick ==
    /\ \E k \in DOMAIN client.nodes :
          client' = [client EXCEPT !.selectedNodeId = Val(client.nodes[k].id)]
    /\ UNCHANGED serverVars

resetSelection ==
    /\ client' = [client EXCEPT !.selectedNodeId = Null]
    /\ UNCHANGED serverVars

\* The Regenerate button is rendered while there is a mind map
regenerateMindMap ==
    /\ client.mindMap # Null
    /\ client' = MindMapEffect([client EXCEPT !.selectedNodeId = Null, !.mindMap = Null])
    /\ UNCHANGED serverVars

\* The connections the user can draw from one rendered node to another
Connections ==
    {[source |-> client.nodes[p[1]].id, target |-> client.nodes[p[2]].id] :
        p \in {q \in (DOMAIN client.nodes) \X (DOMAIN client.nodes) : q[1] # q[2]}}

\* addEdge(edge, eds): the edge is added unless eds connects the same ends
addEdge(connection, eds) ==
    IF \E k \in DOMAIN eds :
          eds[k].source = connection.source /\ eds[k].target = connection.target
    THEN eds
    ELSE Append(eds,
                [id |-> <<"reactflow__edge-">> \o connection.source
                            \o <<"-">> \o connection.target,
                 source |-> connection.source, target |-> connection.target,
                 label |-> Undefined, type |-> "smoothstep", animated |-> FALSE])

\* onConnect: setEdges((eds) => addEdge({...connection, ...}, eds))
onConnect ==
    /\ \E connection \in Connections :
          client' = [client EXCEPT !.edges = addEdge(connection, @)]
    /\ UNCHANGED serverVars

\* The values typed into the fields of the editor
FieldEdits ==
    {[field |-> "title", value |-> <<"E">>],
     [field |-> "importance", value |-> <<"9">>]}

\* Number(value) for the numerals typed
Number(value) == IF value = <<"9">> THEN 9 ELSE 0

\* {...selectedNode, [field]: ...}
Edited(node, edit) ==
    IF edit.field = "importance"
    THEN [node EXCEPT !.importance = Max(1, Min(5, Number(edit.value)))]
    ELSE IF edit.field = "summary" THEN [node EXCEPT !.summary = Val(edit.value)]
    ELSE IF edit.field = "title" THEN [node EXCEPT !.title = edit.value]
    ELSE node

\* handleNodeFieldChange(field, value); it returns at once without a
\* selected node
handleNodeFieldChange ==
    /\ selectedNode # Null
    /\ \E edit \in FieldEdits :
          client' = MindMapEffect(
                        [client EXCEPT
                            !.mindMap = updateNode(client.mindMap,
                                                   Edited(selectedNode.v, edit))])
    /\ UNCHANGED serverVars

\* JSON.stringify({ node: selectedNode }) as the route reads it
RefineRequestFor(node) ==
    [body |-> "json",
     payload |-> Val([node |-> Val([title |-> node.title,
                                    summary |-> node.summary,
                                    tags |-> node.tags,
                                    citations |-> Val(node.citations)])])]

\* autoCorrectSelectedNode up to its await fetch('/api/autocorrect', ...):
\* the callback keeps the selectedNode it was created with
autoCorrectSelectedNode ==
    /\ selectedNode # Null
    /\ client.sent < MaxRequests
    /\ client' = [client EXCEPT
                     !.inflight = Append(@, [node |-> selectedNode.v,
                                             response |-> Undefined]),
                     !.sent = @ + 1]
    /\ UNCHANGED serverVars

\* The requests in flight that the route has not answered
Unanswered == {i \in DOMAIN client.inflight : client.inflight[i].response = Undefined}

Oldest(is) == CHOOSE i \in is : \A j \in is : i <= j

\* The route takes up the oldest request it has not answered
RefineServe ==
    /\ Unanswered # {}
    /\ RefinePOSTStep({RefineRequestFor(client.inflight[Oldest(Unanswered)].node)})

\* The envelopes the generative service answers the component's requests with
ClientEnvelopes ==
    {Envelope(Val(<<"{", "G", "}">>), Undefined), Envelope(Undefined, Undefined)}

RefineCreateResponseClient == RefineCreateResponseStep(ClientEnvelopes)

\* The response of the route is on its way to the component, and the route
\* is ready for the next request
RefineRespond ==
    /\ pc = "done"
    /\ op = "refine"
    /\ client' = [client EXCEPT !.inflight[Oldest(Unanswered)].response = Val(result)]
    /\ pc' = "idle"
    /\ op' = "none"
    /\ request' = Undefined
    /\ response' = Undefined
    /\ outputText' = <<>>
    /\ parsed' = NotParsed
    /\ calls' = <<>>
    /\ result' = Running
    /\ UNCHANGED <<apiKey, pdf, pageNumber, text, destroyed, extractedText,
                   mindMap, idx, citations, verifiedNodes>>

\* A mutant of ResponseOk that takes every response for a success
ResponseOkAlways(r) == TRUE

\* response.ok
ResponseOk(r) == r.status \in 200..299

\* A field of the JSON body of a response
BodyField(r, field) ==
    IF r.payload = Undefined THEN Undefined ELSE r.payload.v[field]

Remove(seq, i) == SubSeq(seq, 1, i - 1) \o SubSeq(seq, i + 1, Len(seq))

\* autoCorrectSelectedNode after its await: a response that is not ok
\* throws into the catch, which sets the error; a response that is ok
\* replaces the node by the kept selectedNode with the new summary and tags
AutoCorrectResolve ==
    /\ \E i \in DOMAIN client.inflight :
          LET entry == client.inflight[i] IN
          /\ entry.response # Undefined
          /\ IF ~ResponseOk(entry.response.v)
             THEN client' = [client EXCEPT
                                !.error = Val(entry.response.v.error),
                                !.inflight = Remove(@, i)]
             ELSE client' = MindMapEffect(
                                [client EXCEPT
                                    !.mindMap = updateNode(@,
                                        [entry.node EXCEPT
                                            !.summary = BodyField(entry.response.v, "summary"),
                                            !.tags = BodyField(entry.response.v, "tags"),
                                            !.autoCorrected = Val(TRUE)]),
                                    !.inflight = Remove(@, i)])
    /\ UNCHANGED serverVars

\* The component after a Generate payload arrived, and the route idle
InitClient ==
    /\ ServerIdle
    /\ \E payload \in ClientPayloads : client = Loaded(payload)

NextClient ==
    \/ onNodeClick
    \/ resetSelection
    \/ regenerateMindMap
    \/ handleNodeFieldChange
    \/ onConnect
    \/ autoCorrectSelectedNode
    \/ RefineServe
    \/ RefineCreateResponseClient
    \/ RefineCollectText
    \/ RefineParse
    \/ RefineRespond
    \/ AutoCorrectResolve

SpecClient == InitClient /\ [][NextClient]_vars

----------------------------------------------------------------------------
(* The component: uploads *)

\* The responses of the Generate route to the component: a payload, or the
\* error of a document without text
GenerateResponses ==
    {OkResponse(payload) : payload \in ClientPayloads}
        \cup {ErrorResponse(422, "Unable to extract text from PDF.")}

\* The calls of handleUpload that have not reached their finally block
Pending == {i \in DOMAIN client.uploads : client.uploads[i].stage # "done"}

\* onDrop / onFileInputChange call handleUpload(file), which runs up to its
\* await fetch('/api/generate', ...); neither is disabled during an upload
handleUpload ==
    /\ Len(client.uploads) < MaxUploads
    /\ client' = [client EXCEPT
                     !.uploadState = "uploading",
                     !.error = Null,
                     !.uploads = Append(@, [stage |-> "fetching",
                                            response |-> Undefined])]
    /\ UNCHANGED serverVars

\* await fetch resolves for one of the calls in flight: a response that is
\* not ok goes on to read the error, one that is ok sets 'verifying' and
\* goes on to read the payload
UploadFetched ==
    /\ \E i \in DOMAIN client.uploads, r \in GenerateResponses :
          /\ client.uploads[i].stage = "fetching"
          /\ IF ~ResponseOk(r)
             THEN client' = [client EXCEPT
                                !.uploads[i] = [stage |-> "failing",
                                                response |-> Val(r)]]
             ELSE client' = [client EXCEPT
                                !.uploadState = "verifying",
                                !.uploads[i] = [stage |-> "verifying",
                                                response |-> Val(r)]]
    /\ UNCHANGED serverVars

\* await response.json() resolves for one of the calls: the catch sets the
\* error, or the payload becomes the mind map and its first node the
\* selection; the finally block sets 'idle'
UploadBodyRead ==
    /\ \E i \in DOMAIN client.uploads :
          LET entry == client.uploads[i] IN
          /\ entry.stage \in {"failing", "verifying"}
          /\ IF entry.stage = "failing"
             THEN client' = [client EXCEPT
                                !.error = Val(entry.response.v.error),
                                !.uploadState = "idle",
                                !.uploads[i].stage = "done"]
             ELSE client' = [Load(client, entry.response.v.payload.v) EXCEPT
                                !.uploadState = "idle",
                                !.uploads[i].stage = "done"]
    /\ UNCHANGED serverVars

NextUpload ==
    \/ handleUpload
    \/ UploadFetched
    \/ UploadBodyRead
    \/ onNodeClick
    \/ resetSelection

SpecUpload == Init /\ [][NextUpload]_vars

----------------------------------------------------------------------------
(* Reference verification: what the call log says about node k *)

\* The primary source was queried for node k with this outcome and this
\* many citations built from its documents
PrimaryCall(k, outcomes, count) ==
    \E i \in DOMAIN calls :
        /\ calls[i].kind = "medline"
        /\ calls[i].node = k
        /\ calls[i].outcome \in outcomes
        /\ calls[i].count = count

PrimaryQueried(k) == \E i \in DOMAIN calls : calls[i].kind = "medline" /\ calls[i].node = k

FallbackQueried(k) ==
    \E i \in DOMAIN calls : calls[i].kind = "wikipedia" /\ calls[i].node = k

\* verifyNode has taken its decision about the fallback for node k
Decided(k) == PrimaryQueried(k) /\ ~(pc = "g_wiki" /\ idx = k)

NodePositions == 1..(MaxNodes + 1)

ReferenceFailure(k) ==
    \E i \in DOMAIN calls :
        /\ calls[i].kind \in {"medline", "wikipedia"}
        /\ calls[i].node = k
        /\ calls[i].outcome \in {"throw", "badBody", "notOk"}

\* C2 as stated: whenever the verification of a node met a failure of a
\* reference source, Generate still completes successfully and that node
\* has an empty citation list and verified = false.
C2_ReferenceFailuresNeverFailGenerate ==
    (pc = "done" /\ op = "generate") =>
        \A k \in NodePositions :
            ReferenceFailure(k) =>
                /\ result.status = 200
                /\ result.payload.v.nodes[k].citations = <<>>
                /\ ~result.payload.v.nodes[k].verified

\* C3: in every payload of a successful Generate, every node is verified
\* exactly when its citation sequence is not empty.
C3_VerifiedIffCited ==
    (op = "generate" /\ result.status = 200) =>
        \A k \in DOMAIN result.payload.v.nodes :
            result.payload.v.nodes[k].verified
                <=> (Len(result.payload.v.nodes[k].citations) > 0)

\* A payload with a verified node and an unverified node
C3_Witness ==
    /\ op = "generate"
    /\ result.status = 200
    /\ \E j, k \in DOMAIN result.payload.v.nodes :
        /\ result.payload.v.nodes[j].verified
        /\ ~result.payload.v.nodes[k].verified

\* The document could not be opened or one of its pages could not be read
ExtractionFailed ==
    \/ pc = "g_destroy_throw"
    \/ /\ op = "generate"
       /\ pc = "done"
       /\ \/ \E i \in DOMAIN calls : calls[i].kind = "pdf" /\ calls[i].outcome = "throw"
          \/ destroyed > 0 /\ pdf.kind = "value"

\* extractTextFromPdf returned the empty string
ExtractionEmpty ==
    op = "generate" /\ destroyed > 0 /\ pdf.kind = "undefined" /\ extractedText = <<>>

ServiceCalls ==
    {i \in DOMAIN calls : calls[i].kind \in {"openai", "medline", "wikipedia"}}

\* C4: when extraction fails or yields the empty string, Generate ends in
\* that failure, and neither the generative service nor a reference source
\* is called.
C4_ExtractionFailureStopsBeforeCalls ==
    /\ ExtractionFailed =>
          /\ ServiceCalls = {}
          /\ pc = "done" =>
                /\ result.status = 500
                /\ result.error \in {"Invalid PDF structure.", "Failed to load page."}
    /\ ExtractionEmpty =>
          /\ ServiceCalls = {}
          /\ pc = "done"
          /\ result = ErrorResponse(422, "Unable to extract text from PDF.")

\* Generate ended with the empty-extraction failure although the key is set
C4_Witness == ExtractionEmpty /\ apiKey /\ result.status = 422

\* The request lacks the input the operation requires
InputMissing ==
    \/ op = "generate" /\ request.body = "noFile"
    \/ /\ op = "refine"
       /\ request.body = "json"
       /\ (IsNullish(request.payload) \/ IsNullish(request.payload.v.node))

\* C5 as stated: with the credential absent or the required input missing,
\* Generate and Refine report that failure before any external call
\* (document parsing, generative service, reference source).
C5_ConfigAndInputFailuresBeforeAnyCall ==
    (pc = "done" /\ (~apiKey \/ InputMissing)) =>
        /\ calls = <<>>
        /\ \/ result = ErrorResponse(500, "Missing OPENAI_API_KEY")
           \/ result.status = 400

\* C6: Generate ends either with a complete payload, in which every
\* synthesized node went through verification, or with an error response
\* that carries no nodes and no edges, also when nodes were processed before
\* the failure.
C6_PayloadOrErrorNeverPartial ==
    (pc = "done" /\ op = "generate") =>
        \/ /\ result.status = 200
           /\ result.error = "none"
           /\ DOMAIN result.payload.v = {"nodes", "edges", "generatedAt", "sourceSummary"}
           /\ Len(result.payload.v.nodes) = Len(mindMap.v.nodes)
           /\ \A k \in DOMAIN mindMap.v.nodes :
                 /\ PrimaryQueried(k)
                 /\ result.payload.v.nodes[k].id = mindMap.v.nodes[k].id
           /\ result.payload.v.edges = mindMap.v.edges
           /\ result.payload.v.sourceSummary = mindMap.v.sourceSummary
        \/ /\ result.status \in {400, 422, 500}
           /\ result.error # "none"
           /\ result.payload = Undefined

\* Generate failed after a node had been verified and pushed
C6_Witness ==
    /\ pc = "done"
    /\ op = "generate"
    /\ result.status = 500
    /\ Len(verifiedNodes) > 0

----------------------------------------------------------------------------
(* Verification of one node against every response of the two sources *)

ParsedGraph(g) ==
    Parsed([ok |-> TRUE, value |-> GraphText, error |-> "none"], Val(g))

\* Generate after buildMindMapFromText returned the graph g for a one-page
\* document with the text "w"
AfterSynthesis(g) ==
    /\ op = "generate"
    /\ apiKey = TRUE
    /\ request = [body |-> "file"]
    /\ pdf = Undefined
    /\ pageNumber = 0
    /\ text = <<>>
    /\ destroyed = 1
    /\ extractedText = <<"w">>
    /\ response = Undefined
    /\ outputText = <<>>
    /\ parsed = ParsedGraph(g)
    /\ mindMap = Val(Normalize(g))
    /\ idx = 1
    /\ citations = NoCitations
    /\ verifiedNodes = <<>>
    /\ calls = <<Call("pdf", 0, "ok", 0), Call("openai", 0, "ok", 0)>>
    /\ result = Running
    /\ client = ClientIdle

OneNodeGraphs ==
    {[nodes |-> <<n>>, edges |-> <<>>, sourceSummary |-> <<"s">>] : n \in PipeRawNodes}

InitVerify ==
    /\ pc = "g_verify"
    /\ \E g \in OneNodeGraphs : AfterSynthesis(g)

MedlineFetchAny == \E m \in MedlineResponses : MedlineStep(m)

WikiFetchAny == \E w \in WikiResponses : WikiStep(w)

NextVerify == MedlineFetchAny \/ WikiFetchAny

SpecVerify == InitVerify /\ [][NextVerify]_vars

\* The positions of cs that hold the first entry of their url
FirstOccurrences(cs) ==
    {i \in DOMAIN cs : \A j \in 1..(i - 1) : cs[j].url # cs[i].url}

\* The k-th smallest member of a set of positions
KthOf(P, k) == CHOOSE i \in P : Cardinality({j \in P : j <= i}) = k

\* kept is the subsequence of cs at its first-occurrence positions
IsFirstOccurrenceSubsequence(kept, cs) ==
    /\ Len(kept) = Cardinality(FirstOccurrences(cs))
    /\ \A k \in DOMAIN kept : kept[k] = cs[KthOf(FirstOccurrences(cs), k)]

\* C7: the citations attached to a node are the first occurrences per url
\* of the verifier's result, in the original order and with the first-seen
\* fields; no two of them share a url, and deduplicating them again changes
\* nothing.
C7_DedupFirstOccurrencesIdempotent ==
    Len(verifiedNodes) > 0 =>
        LET kept == verifiedNodes[Len(verifiedNodes)].citations IN
        /\ IsFirstOccurrenceSubsequence(kept, citations)
        /\ \A i, j \in DOMAIN kept : kept[i].url = kept[j].url => i = j
        /\ uniqueCitations(kept) = kept

\* The verifier returned three citations of which the third repeats the
\* url of the first, with other fields
C7_Witness ==
    /\ Len(verifiedNodes) > 0
    /\ Len(citations) = 3
    /\ citations[1].url = citations[3].url
    /\ citations[1] # citations[3]
    /\ citations[1].url # citations[2].url
    /\ Len(verifiedNodes[Len(verifiedNodes)].citations) = 2

----------------------------------------------------------------------------
(* Normalization of every raw node *)

RawImportances == {Undefined} \cup {Val(i) : i \in -1..7}

NormRawNodes ==
    [id : {<<"a">>}, title : {<<"T">>}, summary : {<<"S">>},
     parentIds : {Undefined, Val(<< <<"r">> >>)},
     importance : RawImportances,
     tags : {Undefined},
     citations : {Undefined},
     verified : {Undefined}]

NormGraphs ==
    [nodes : SeqsUpTo(NormRawNodes, MaxNodes),
     edges : {<<>>},
     sourceSummary : {<<"s">>}]

\* Generate when buildMindMapFromText has collected the text of the response
InitNormalize ==
    /\ pc = "g_parse"
    /\ op = "generate"
    /\ apiKey = TRUE
    /\ request = [body |-> "file"]
    /\ pdf = Undefined
    /\ pageNumber = 0
    /\ text = <<>>
    /\ destroyed = 1
    /\ extractedText = <<"w">>
    /\ response = Val([output_text |-> Val(GraphText), output |-> Undefined])
    /\ outputText = GraphText
    /\ parsed = NotParsed
    /\ mindMap = Undefined
    /\ idx = 0
    /\ citations = NoCitations
    /\ verifiedNodes = <<>>
    /\ calls = <<Call("pdf", 0, "ok", 0), Call("openai", 0, "ok", 0)>>
    /\ result = Running
    /\ client = ClientIdle

\* Graphs of one node with every list of raw edges: without a label, with
\* the empty label, with a label; between nodes or to the id of no node
NormRawEdges ==
    [source : {<<"a">>}, target : {<<"a">>, <<"z">>},
     label : {Undefined, Val(<<>>), Val(<<"l">>)}]

NormEdgeGraphs ==
    [nodes : {<<RawNodeA>>},
     edges : SeqsUpTo(NormRawEdges, MaxEdges),
     sourceSummary : {<<"s">>}]

ParseAnyGraph == ParseGraphStep(NormGraphs \cup NormEdgeGraphs)

MedlineFetchOne == MedlineStep(MedlineOk([kind |-> "object", v |-> DocX]))

NextNormalize == ParseAnyGraph \/ MedlineFetchOne

SpecNormalize == InitNormalize /\ [][NextNormalize]_vars

\* min(5, max(1, i)) for a present importance i, 3 for an absent one
ExpectedImportance(importance) ==
    IF importance.kind = "undefined" THEN 3
    ELSE IF importance.v < 1 THEN 1
    ELSE IF importance.v > 5 THEN 5
    ELSE importance.v

\* C8: every normalized node has the importance min(5, max(1, i)) of its
\* raw importance i, or 3 when the raw node has none, so the importance of
\* every node of a Generate payload lies in 1..5.
C8_ImportanceClamped ==
    /\ mindMap.kind = "value" =>
          \A k \in DOMAIN mindMap.v.nodes :
              mindMap.v.nodes[k].importance
                  = ExpectedImportance(parsed.object.v.nodes[k].importance)
    /\ (op = "generate" /\ result.status = 200) =>
          \A k \in DOMAIN result.payload.v.nodes :
              /\ result.payload.v.nodes[k].importance \in 1..5
              /\ result.payload.v.nodes[k].importance
                    = ExpectedImportance(parsed.object.v.nodes[k].importance)

\* A payload with raw importances 7, -1 and none
C8_Witness ==
    /\ op = "generate"
    /\ result.status = 200
    /\ \E k \in DOMAIN result.payload.v.nodes :
          /\ parsed.object.v.nodes[k].importance = Val(7)
          /\ result.payload.v.nodes[k].importance = 5
    /\ \E k \in DOMAIN result.payload.v.nodes :
          /\ parsed.object.v.nodes[k].importance \in {Val(-1), Undefined}
          /\ result.payload.v.nodes[k].importance \in {1, 3}

----------------------------------------------------------------------------
(* Tolerant parsing of every short text *)

Lexemes == {"{", "}", "G", "k", "1", "x", "\n"}

Texts == SeqsUpTo(Lexemes, MaxLen) \ {<<>>}

RefineNodeCited ==
    [title |-> <<"T">>, summary |-> Val(<<"S">>),
     tags |-> Val(<< <<"symptom">> >>), citations |-> Val(<<>>)]

\* Refine when the text of the response has been collected
InitParse ==
    /\ pc = "r_parse"
    /\ op = "refine"
    /\ apiKey = TRUE
    /\ request = [body |-> "json", payload |-> Val([node |-> Val(RefineNodeCited)])]
    /\ pdf = Undefined
    /\ pageNumber = 0
    /\ text = <<>>
    /\ destroyed = 0
    /\ extractedText = <<>>
    /\ \E t \in Texts :
          /\ response = Val([output_text |-> Val(t), output |-> Undefined])
          /\ outputText = t
    /\ parsed = NotParsed
    /\ mindMap = Undefined
    /\ idx = 0
    /\ citations = NoCitations
    /\ verifiedNodes = <<>>
    /\ calls = <<Call("openai", 0, "ok", 0)>>
    /\ result = Running
    /\ client = ClientIdle

NextParse == RefineParse

SpecParse == InitParse /\ [][NextParse]_vars

\* The JSON values of nesting depth at most d, written without white space
RECURSIVE JsonValues(_)
JsonValues(d) ==
    IF d = 0 THEN {<<"1">>, <<"{", "}">>, <<"{", "G", "}">>}
    ELSE JsonValues(d - 1)
         \cup {<<"{", "k">> \o v \o <<"}">> : v \in JsonValues(d - 1)}

Strip(s) == SelectSeq(s, LAMBDA c : c \notin {"\n", " "})

IsJson(s) == Strip(s) \in JsonValues(Len(s))

\* The inclusive span from the first "{" to the last "}", when the last "}"
\* lies after the first "{"; the empty text otherwise
BraceSpan(s) ==
    LET opens == {i \in DOMAIN s : s[i] = "{"}
        closes == {i \in DOMAIN s : s[i] = "}"}
    IN IF opens = {} \/ closes = {} THEN <<>>
       ELSE LET first == CHOOSE i \in opens : \A j \in opens : i <= j
                last == CHOOSE i \in closes : \A j \in closes : j <= i
            IN IF last > first THEN SubSeq(s, first, last) ELSE <<>>

\* C9: tolerant parsing returns the value of the whole text when the whole
\* text is JSON; otherwise the value of the span from the first "{" to the
\* last "}" when that span exists and is JSON; otherwise it fails, and the
\* operation ends in an error without a value.
C9_TolerantParseThreeOutcomes ==
    (parsed.error # "not attempted" /\ outputText # <<>>) =>
        IF IsJson(outputText)
        THEN parsed.ok /\ parsed.value = Strip(outputText)
        ELSE IF IsJson(BraceSpan(outputText))
        THEN parsed.ok /\ parsed.value = Strip(BraceSpan(outputText))
        ELSE /\ ~parsed.ok
             /\ parsed.object = Undefined
             /\ pc = "done"
             /\ result.status = 500
             /\ result.error \in {ParseErrorMessage, "SyntaxError"}
             /\ result.payload = Undefined

\* A text that is not JSON as a whole and whose brace span is: prose, an
\* object, and prose after it
C9_Witness ==
    /\ pc = "done"
    /\ parsed.ok
    /\ ~IsJson(outputText)
    /\ outputText[1] = "x"
    /\ outputText[Len(outputText)] = "x"
    /\ result.status = 200

----------------------------------------------------------------------------
(* Text of every response envelope, in both routes *)

\* Generate when extractTextFromPdf has returned "w" and the key is set;
\* Refine when the request has been accepted
InitCollect ==
    /\ \/ /\ pc = "g_create"
          /\ op = "generate"
          /\ request = [body |-> "file"]
          /\ destroyed = 1
          /\ extractedText = <<"w">>
          /\ calls = <<Call("pdf", 0, "ok", 0)>>
       \/ /\ pc = "r_create"
          /\ op = "refine"
          /\ request = [body |-> "json", payload |-> Val([node |-> Val(RefineNodeCited)])]
          /\ destroyed = 0
          /\ extractedText = <<>>
          /\ calls = <<>>
    /\ apiKey = TRUE
    /\ pdf = Undefined
    /\ pageNumber = 0
    /\ text = <<>>
    /\ response = Undefined
    /\ outputText = <<>>
    /\ parsed = NotParsed
    /\ mindMap = Undefined
    /\ idx = 0
    /\ citations = NoCitations
    /\ verifiedNodes = <<>>
    /\ result = Running
    /\ client = ClientIdle

CreateResponseAny == CreateResponseStep(Envelopes)

RefineCreateResponseAny == RefineCreateResponseStep(Envelopes)

ParseOneNodeGraph == ParseGraphStep(OneNodeGraphs)

NextCollect ==
    \/ CreateResponseAny
    \/ CollectText
    \/ ParseOneNodeGraph
    \/ RefineCreateResponseAny
    \/ RefineCollectText
    \/ RefineParse

SpecCollect == InitCollect /\ [][NextCollect]_vars

\* The texts of the fragments of item i of the output, in order
FragmentTextsOf(output, i) ==
    IF output[i].content.kind # "value" THEN <<>>
    ELSE SelectSeq(output[i].content.v, LAMBDA f : f.text.kind = "value")

\* Every text fragment of every output item, in order
RECURSIVE AllFragments(_, _)
AllFragments(output, i) ==
    IF i = 0 THEN <<>>
    ELSE AllFragments(output, i - 1)
         \o [j \in 1..Len(FragmentTextsOf(output, i)) |-> FragmentTextsOf(output, i)[j].text.v]

\* The fragments joined by a newline, built from the last one backwards
RECURSIVE JoinedByNewline(_, _)
JoinedByNewline(frags, n) ==
    IF n = 0 THEN <<>>
    ELSE IF n = 1 THEN frags[1]
    ELSE JoinedByNewline(frags, n - 1) \o <<"\n">> \o frags[n]

ExpectedText(envelope) ==
    IF envelope.output_text.kind = "value" /\ Len(envelope.output_text.v) > 0
    THEN envelope.output_text.v
    ELSE IF envelope.output.kind # "value" THEN <<>>
    ELSE LET frags == AllFragments(envelope.output.v, Len(envelope.output.v))
         IN JoinedByNewline(frags, Len(frags))

\* The text of the response has been collected and the response is in scope
Collected == response.kind = "value" /\ pc \notin {"g_collect", "r_collect"}

\* C10: the collected text is the flattened text field when that is present
\* and not empty, otherwise the text fragments of all output items in order
\* joined by newline, otherwise empty; and when it is empty the operation
\* fails with the empty-response error without parsing.
C10_ExtractionPriorityAndEmptyFailure ==
    Collected =>
        /\ outputText = ExpectedText(response.v)
        /\ outputText = <<>> =>
              /\ pc = "done"
              /\ result = ErrorResponse(500, "Empty AI response")
              /\ parsed = NotParsed

\* The text was joined from the fragments of two output items because the
\* flattened text field was empty or missing
C10_Witness ==
    /\ Collected
    /\ ~Truthy(response.v.output_text)
    /\ response.v.output.kind = "value"
    /\ Len(response.v.output.v) = 2
    /\ Len(FlatMapSegments(response.v.output.v)) >= 2
    /\ outputText # <<>>

----------------------------------------------------------------------------
(* Number of citations per query *)

\* The number of documents in the answer of the primary source
DocumentCount(m) ==
    IF m.kind # "ok" \/ m.documents.kind = "undefined" THEN 0
    ELSE IF m.documents.kind = "array" THEN Len(m.documents.v)
    ELSE 1

\* The answer of the secondary source is OK and carries a page link
WikiWellFormed(w) ==
    /\ w.kind = "ok"
    /\ w.data.kind = "value"
    /\ w.data.v.page.kind = "value"
    /\ w.data.v.page.v # <<>>

\* The last query of the log has returned to the loop of POST
Returned(i) == i = Len(calls) /\ ~Throws(calls[i].answer)

----------------------------------------------------------------------------
(* Order of verification *)

\* The queries sent to the two reference sources, in the order they completed
ReferenceCalls == SelectSeq(calls, LAMBDA c : c.kind \in {"medline", "wikipedia"})

\* Generate is inside the loop over the synthesized nodes, or has left it
InLoop == op = "generate" /\ mindMap # Undefined

\* C13: nodes are verified one at a time in synthesis order: the queries in
\* the log are grouped by node in increasing node position, the primary
\* query of a node before its fallback query and each at most once; when
\* the loop turns to node k + 1 the nodes up to k have been pushed and no
\* query for a later node has been made; and the nodes of the payload are
\* in the order of the synthesized nodes.
C13_NodesVerifiedOneAtATimeInOrder ==
    InLoop =>
        LET rc == ReferenceCalls IN
        /\ \A i, j \in DOMAIN rc :
              i < j =>
                 \/ rc[i].node < rc[j].node
                 \/ /\ rc[i].node = rc[j].node
                    /\ j = i + 1
                    /\ rc[i].kind = "medline"
                    /\ rc[j].kind = "wikipedia"
        /\ \A i \in DOMAIN rc : rc[i].node <= Len(verifiedNodes) + 1
        /\ pc \in {"g_verify", "g_wiki"} =>
              /\ idx = Len(verifiedNodes) + 1
              /\ \A i \in DOMAIN rc : rc[i].node <= idx
              /\ pc = "g_verify" => \A i \in DOMAIN rc : rc[i].node < idx
              /\ pc = "g_wiki" =>
                    /\ rc # <<>>
                    /\ rc[Len(rc)].node = idx
                    /\ rc[Len(rc)].kind = "medline"
        /\ \A k \in DOMAIN verifiedNodes :
              /\ verifiedNodes[k].id = mindMap.v.nodes[k].id
              /\ verifiedNodes[k].title = mindMap.v.nodes[k].title
        /\ result.status = 200 => result.payload.v.nodes = verifiedNodes

\* A payload of two nodes with different titles was returned after the first
\* node went to the fallback and the second did not
C13_Witness ==
    /\ op = "generate"
    /\ pc = "done"
    /\ result.status = 200
    /\ Len(result.payload.v.nodes) = 2
    /\ result.payload.v.nodes[1].title # result.payload.v.nodes[2].title
    /\ FallbackQueried(1)
    /\ ~FallbackQueried(2)

----------------------------------------------------------------------------
(* Release of the document decoder *)

\* getDocument has resolved for this request
Opened ==
    /\ op = "generate"
    /\ \E i \in DOMAIN calls : calls[i].kind = "pdf" /\ calls[i].outcome = "ok"

\* Control is inside the try block of extractTextFromPdf or at its finally
Extracting == pc \in {"g_page", "g_destroy", "g_destroy_throw"}

\* The text of the first n pages, each followed by a newline
RECURSIVE TextOfPages(_, _)
TextOfPages(pages, n) ==
    IF n = 0 THEN <<>>
    ELSE TextOfPages(pages, n - 1) \o PageText(pages[n]) \o <<"\n">>

\* C20: once the document has been opened its decoder is released exactly
\* once before extraction returns or fails, after the last page or after
\* the page that raised an error, and never when the document did not open;
\* the pages are read in increasing page order, each once.
C20_DecoderReleasedOnceAfterPagesInOrder ==
    /\ ~Opened => destroyed = 0
    /\ (Opened /\ Extracting) =>
          /\ destroyed = 0
          /\ pageNumber \in 1..(Len(pdf.v.pages) + 1)
          /\ text = TextOfPages(pdf.v.pages, pageNumber - 1)
          /\ \A n \in 1..(pageNumber - 1) : ~pdf.v.pages[n].fails
          /\ pc = "g_destroy" => pageNumber = Len(pdf.v.pages) + 1
          /\ pc = "g_destroy_throw" => pdf.v.pages[pageNumber].fails
    /\ (Opened /\ ~Extracting) => destroyed = 1

\* Extraction failed on the second page, after the first was read, and the
\* decoder has been released
C20_Witness ==
    /\ Opened
    /\ pc = "done"
    /\ result = ErrorResponse(500, "Failed to load page.")
    /\ pageNumber = 2
    /\ text # <<>>
    /\ destroyed = 1

----------------------------------------------------------------------------
(* Ids of the normalized edges *)

\* The graph the generative output denoted
RawGraph == parsed.object.v

\* The raw edge carries a label that is not the empty string
Labelled(edge) == edge.label # Undefined /\ edge.label # Val(<<>>)

\* C19: the id of a normalized edge is source-target-label when the raw edge
\* has a label, and otherwise edge-<index> with the 0-based position of the
\* edge in the raw sequence, so that edges without labels at different
\* positions have different ids.
C19_EdgeIdFromLabelOrPosition ==
    InLoop =>
        LET raw == RawGraph.edges
            edges == mindMap.v.edges
        IN /\ Len(edges) = Len(raw)
           /\ \A i \in DOMAIN edges :
                 /\ edges[i].source = raw[i].source
                 /\ edges[i].target = raw[i].target
                 /\ edges[i].label = raw[i].label
                 /\ Labelled(raw[i]) =>
                       edges[i].id = raw[i].source \o <<"-">> \o raw[i].target
                                        \o <<"-">> \o raw[i].label.v
                 /\ ~Labelled(raw[i]) => edges[i].id = <<"edge", "-", ToString(i - 1)>>
           /\ \A i, j \in DOMAIN edges :
                 (i # j /\ ~Labelled(raw[i]) /\ ~Labelled(raw[j])) =>
                     edges[i].id # edges[j].id

\* Two edges without labels and with the same ends were normalized
C19_Witness ==
    /\ InLoop
    /\ Len(mindMap.v.edges) >= 2
    /\ \E i, j \in DOMAIN mindMap.v.edges :
          /\ i < j
          /\ ~Labelled(RawGraph.edges[i])
          /\ ~Labelled(RawGraph.edges[j])
          /\ RawGraph.edges[i].source = RawGraph.edges[j].source
          /\ RawGraph.edges[i].target = RawGraph.edges[j].target

----------------------------------------------------------------------------
(* What verification writes and what it leaves alone *)

\* Generate returned a payload
Generated == op = "generate" /\ pc = "done" /\ result.status = 200

\* The last query of kind for the node at position k
LastCall(kind, k) ==
    LET is == {i \in DOMAIN calls : calls[i].kind = kind /\ calls[i].node = k}
    IN calls[CHOOSE i \in is : \A j \in is : j <= i]

\* What verifyNode returned for the node at position k with this title
VerifierResult(k, title) ==
    LET medline == fetchMedlineCitations(title, LastCall("medline", k).answer)
    IN IF Len(medline) > 0 THEN medline
       ELSE fetchWikipediaFallback(title, LastCall("wikipedia", k).answer)

\* C17: normalization gives every node no citations and verified = false
\* whatever the generative output holds in those fields, and in a payload
\* the citations of a node are the de-duplicated result of the verifier for
\* the node's title, verified telling whether there is one.
C17_VerifierIsOnlySourceOfCitations ==
    /\ InLoop =>
          \A k \in DOMAIN mindMap.v.nodes :
              /\ mindMap.v.nodes[k].citations = <<>>
              /\ mindMap.v.nodes[k].verified = FALSE
    /\ Generated =>
          \A k \in DOMAIN result.payload.v.nodes :
              LET node == result.payload.v.nodes[k]
                  found == uniqueCitations(VerifierResult(k, RawGraph.nodes[k].title))
              IN /\ node.citations = found
                 /\ node.verified = (found # <<>>)

\* The payload holds an unverified node without citations that the
\* generative output had marked verified and given a citation
C17_Witness ==
    /\ Generated
    /\ \E k \in DOMAIN result.payload.v.nodes :
          /\ RawGraph.nodes[k].verified = Val(TRUE)
          /\ RawGraph.nodes[k].citations # Undefined
          /\ result.payload.v.nodes[k].verified = FALSE
          /\ result.payload.v.nodes[k].citations = <<>>

\* The fields of a node that verification does not write
Structure(node) ==
    [id |-> node.id, title |-> node.title, summary |-> node.summary,
     parentIds |-> node.parentIds, importance |-> node.importance,
     tags |-> node.tags]

\* C18: verification changes only citations and verified: the other fields
\* of every node, the number of nodes and the whole edge sequence of the
\* payload are those of the normalized graph, edges whose source or target
\* is the id of no node included.
C18_VerificationKeepsStructure ==
    /\ InLoop =>
          /\ mindMap.v = Normalize(RawGraph)
          /\ \A k \in DOMAIN verifiedNodes :
                /\ DOMAIN verifiedNodes[k] = DOMAIN mindMap.v.nodes[k]
                /\ Structure(verifiedNodes[k]) = Structure(mindMap.v.nodes[k])
    /\ Generated =>
          /\ Len(result.payload.v.nodes) = Len(RawGraph.nodes)
          /\ \A k \in DOMAIN result.payload.v.nodes :
                Structure(result.payload.v.nodes[k])
                    = Structure(NormalizeNode(RawGraph.nodes[k]))
          /\ result.payload.v.edges =
                [i \in 1..Len(RawGraph.edges) |-> NormalizeEdge(RawGraph.edges[i], i - 1)]

\* The payload holds a node that verification gave a citation, and an edge
\* whose target is the id of no node
C18_Witness ==
    /\ Generated
    /\ \E k \in DOMAIN result.payload.v.nodes : result.payload.v.nodes[k].verified
    /\ \E e \in DOMAIN result.payload.v.edges :
          \A k \in DOMAIN result.payload.v.nodes :
              result.payload.v.nodes[k].id # result.payload.v.edges[e].target

----------------------------------------------------------------------------
(* Refine and the node in the component *)

\* The nodes of the mind map the component holds
ClientNodes(c) == IF c.mindMap = Null THEN <<>> ELSE c.mindMap.v.nodes

\* The response at position i of the requests in flight is consumed in this step
Resolved(i) ==
    /\ i \in DOMAIN client.inflight
    /\ client.inflight[i].response # Undefined
    /\ client'.inflight = Remove(client.inflight, i)

\* The route works on a request in this step
RouteStep == pc # pc' \/ calls # calls' \/ result # result'

\* What a step may do to the nodes of the component
RefineStep ==
    /\ RouteStep => client'.mindMap = client.mindMap
    /\ (RouteStep /\ pc \in {"r_create", "r_collect", "r_parse"}) => request' = request
    /\ \A k \in DOMAIN ClientNodes(client') :
          LET after == ClientNodes(client')[k] IN
          (/\ after.autoCorrected = Val(TRUE)
           /\ ~(k \in DOMAIN ClientNodes(client)
                 /\ ClientNodes(client)[k].autoCorrected = Val(TRUE)))
          => \E i \in DOMAIN client.inflight :
                /\ Resolved(i)
                /\ client.inflight[i].response.v.status = 200
                /\ client.inflight[i].node.id = after.id
    /\ \A i \in DOMAIN client.inflight :
          (Resolved(i) /\ client.inflight[i].response.v.status # 200) =>
              /\ client'.mindMap = client.mindMap
              /\ client'.error = Val(client.inflight[i].response.v.error)

\* C15: the Refine route changes neither the node it was sent nor the nodes
\* of the component; a node of the component becomes autoCorrected only in
\* the step that consumes a successful Refine response for its id; and
\* consuming a failed Refine response leaves every node, with its summary,
\* tags and autoCorrected, as it was.
C15_NodeChangesOnlyOnRefineSuccess == [][RefineStep]_vars

\* A failed Refine was reported, and every node still has the summary of
\* the payload and is not autoCorrected
C15_Witness ==
    /\ client.error # Null
    /\ client.inflight = <<>>
    /\ client.sent > 0
    /\ \A k \in DOMAIN ClientNodes(client) :
          /\ ClientNodes(client)[k].autoCorrected = Undefined
          /\ ClientNodes(client)[k].summary \in {Val(<<"S">>), Val(<<"S2">>)}

----------------------------------------------------------------------------
(* The request built by Refine *)

\* The node of the accepted Refine request
RequestNode == request.payload.v.node.v

\* The text sub occurs in s from position p on
OccursAt(sub, s, p) ==
    /\ p >= 1
    /\ p + Len(sub) - 1 <= Len(s)
    /\ SubSeq(s, p, p + Len(sub) - 1) = sub

\* The citation rendered as number, title, source, url and snippet
Rendered(c, k) ==
    <<ToString(k), ". ">> \o c.title \o <<"\nSource: ", c.source>>
        \o <<"\nURL: ">> \o c.url
        \o <<"\nSnippet: ">> \o (IF c.snippet = Undefined THEN <<"N/A">> ELSE c.snippet.v)

\* The renderings of cs occur in s one after the other, from position p on
RECURSIVE RenderedInOrder(_, _, _, _)
RenderedInOrder(cs, k, s, p) ==
    IF k > Len(cs) THEN TRUE
    ELSE \E q \in p..Len(s) :
            /\ OccursAt(Rendered(cs[k], k), s, q)
            /\ RenderedInOrder(cs, k + 1, s, q + Len(Rendered(cs[k], k)))

\* C16: the input of the request Refine sends to the generative service
\* contains the no-citations marker exactly when the node has no citation;
\* otherwise it contains every citation of the node rendered as title,
\* source, url and snippet, in the order of the node's citations.
C16_MarkerIffNoCitations ==
    op = "refine" =>
        \A i \in DOMAIN calls :
            calls[i].kind = "openai" =>
                LET cs == RequestNode.citations.v
                    input == calls[i].input
                IN /\ (\E p \in DOMAIN input : input[p] = NoCitationsMarker)
                        <=> cs = <<>>
                   /\ cs # <<>> => RenderedInOrder(cs, 1, input, 1)

\* Refine sent a request for a node with two citations
C16_Witness ==
    /\ op = "refine"
    /\ \E i \in DOMAIN calls : calls[i].kind = "openai"
    /\ Len(RequestNode.citations.v) = 2

----------------------------------------------------------------------------
(* The answer of Refine *)

\* Refine has answered with a revision
RefineSucceeded == op = "refine" /\ pc = "done" /\ result.status = 200

\* C11: every successful Refine returns a summary and a tag set that are
\* neither null nor undefined: the value of the parsed response when it
\* supplies the field, the value of the input node otherwise.
C11_RefineNeverReturnsNullish ==
    RefineSucceeded =>
        LET o == parsed.object.v
            body == result.payload.v
        IN /\ ~IsNullish(body.summary)
           /\ ~IsNullish(body.tags)
           /\ body.summary = (IF IsNullish(o.summary) THEN RequestNode.summary
                              ELSE o.summary)
           /\ body.tags = (IF IsNullish(o.tags) THEN RequestNode.tags ELSE o.tags)

\* The request body decoded, but the node is missing or lacks one of the
\* fields the route reads
NodeMalformed ==
    /\ op = "refine"
    /\ request.body = "json"
    /\ \/ IsNullish(request.payload)
       \/ IsNullish(request.payload.v.node)
       \/ IsNullish(RequestNode.citations)
       \/ IsNullish(RequestNode.summary)
       \/ IsNullish(RequestNode.tags)

\* C12: with the credential set, a Refine request whose node is missing or
\* not well-formed is answered InvalidRequest (400), and no call to the
\* generative service is made for it.
C12_MalformedNodeIsInvalidRequest ==
    (NodeMalformed /\ apiKey) =>
        /\ pc = "done"
        /\ result.status = 400
        /\ ServiceCalls = {}

----------------------------------------------------------------------------
(* Calls to the generative service *)

\* The requests this operation has sent to the generative service
GenerativeCalls == SelectSeq(calls, LAMBDA c : c.kind = "openai")

\* The operation ended in the empty-response error or in a parse error
EmptyOrParseError ==
    result.error \in {"Empty AI response", "SyntaxError", ParseErrorMessage}

\* C21: an operation of either route calls the generative service at most
\* once, and after an empty response or a parse error it has failed with
\* that one call made and makes no other.
C21_OneGenerativeCallNoRetry ==
    /\ Len(GenerativeCalls) <= 1
    /\ EmptyOrParseError =>
          /\ pc = "done"
          /\ result.status = 500
          /\ Len(GenerativeCalls) = 1
          /\ GenerativeCalls[1].outcome = "ok"

\* Refine failed on a text without an object after its one call
C21_Witness ==
    /\ op = "refine"
    /\ pc = "done"
    /\ result.error = ParseErrorMessage
    /\ Len(GenerativeCalls) = 1

----------------------------------------------------------------------------
(* Arrival of a Refine response in the component *)

\* The fields of a node that a Refine response does not carry
OtherFields(node) ==
    [id |-> node.id, title |-> node.title, parentIds |-> node.parentIds,
     importance |-> node.importance, citations |-> node.citations,
     verified |-> node.verified]

\* The position of the first node with this id, 0 when there is none
FirstWithId(nodes, id) ==
    IF \E k \in DOMAIN nodes : nodes[k].id = id
    THEN CHOOSE k \in DOMAIN nodes :
            nodes[k].id = id /\ \A j \in 1..(k - 1) : nodes[j].id # id
    ELSE 0

\* A successful response is consumed and the node it is for keeps its other
\* fields
RefineArrival ==
    \A i \in DOMAIN client.inflight :
        (Resolved(i) /\ client.inflight[i].response.v.status = 200) =>
            LET before == ClientNodes(client)
                k == FirstWithId(before, client.inflight[i].node.id)
            IN k # 0 =>
                  OtherFields(ClientNodes(client')[k]) = OtherFields(before[k])

\* C22: when a Refine response for a node arrives, the node keeps the title,
\* importance and other fields it has at that moment, edits made while the
\* request was in flight included; only summary, tags and autoCorrected
\* change.
C22_RefineKeepsEditsMadeInFlight == [][RefineArrival]_vars

----------------------------------------------------------------------------
(* The rendered graph and the mind map *)

\* The ids of a sequence of nodes, in order
Ids(nodes) == [k \in DOMAIN nodes |-> nodes[k].id]

\* C23: the ids of the rendered nodes are the ids of mindMap.nodes, and
\* nothing is rendered, neither nodes nor edges, while mindMap is null (as
\* after Regenerate).
C23_RenderedGraphMatchesMindMap ==
    /\ Ids(client.nodes) = Ids(ClientNodes(client))
    /\ client.mindMap = Null => (client.nodes = <<>> /\ client.edges = <<>>)

\* The rendered edges the user drew: addEdge gave them their id
Drawn(edges) ==
    {edges[k] : k \in {j \in DOMAIN edges :
                          /\ edges[j].id # <<>>
                          /\ Head(edges[j].id) = "reactflow__edge-"}}

\* A step in which the mind map stays the same map: a field edit or the
\* arrival of a Refine response
SameMapStep == client.mindMap # Null /\ client'.mindMap # Null

\* Such a step keeps the edges the user drew
DrawnEdgesStay == SameMapStep => Drawn(client.edges) \subseteq Drawn(client'.edges)

\* C24: an edge drawn by the user between two rendered nodes stays rendered
\* across every later field edit and every later successful auto-correct of
\* the same mind map.
C24_DrawnEdgeSurvivesEdits == [][DrawnEdgesStay]_vars

----------------------------------------------------------------------------
(* Editing one node of the mind map *)

\* The positions at which two sequences of nodes of one length differ
Changed(before, after) == {k \in DOMAIN before : after[k] # before[k]}

\* A step that edits or auto-corrects a node of the map changes at most one
\* entry of mindMap.nodes
OneEntryChanges ==
    SameMapStep => Cardinality(Changed(ClientNodes(client), ClientNodes(client'))) <= 1

\* C25: editing or auto-correcting the selected node changes one entry of
\* mindMap.nodes and leaves every other node as it was, for every payload of
\* Generate, those with one id on two nodes included.
C25_EditChangesOneNode == [][OneEntryChanges]_vars

----------------------------------------------------------------------------
(* Overlapping uploads *)

\* Every call of handleUpload has finished, and with a payload
AllSucceeded ==
    /\ Pending = {}
    /\ \A i \in DOMAIN client.uploads : ResponseOk(client.uploads[i].response.v)

\* The mind map the component holds after the payload of upload i
MapOf(i) == Load(ClientIdle, client.uploads[i].response.v.payload.v).mindMap

\* C26: once two overlapping uploads have both completed with a payload, the
\* mind map shown is the payload of the upload started last, in whichever
\* order the responses arrived.
C26_LastStartedUploadIsShown ==
    (Len(client.uploads) >= 2 /\ AllSucceeded) =>
        client.mindMap = MapOf(Len(client.uploads))

\* C27: the upload state is 'idle' exactly when no upload is in flight; one
\* upload completing does not set 'idle' while another is pending.
C27_IdleIffNoUploadPending ==
    (client.uploadState = "idle") <=> (Pending = {})

====
